---- MODULE Spec2Model ----
(***************************************************************************)
(* unified-rag: the Cache Layer (RedisCache over a Redis keyspace), the     *)
(* Search Layer (QdrantSearch over a vector index) and the Retrieval        *)
(* Coordinator (UnifiedRagService::rag_search / rag_store).                 *)
(*                                                                         *)
(* Rust Option<T> is a sequence of length 0 (None) or 1 (Some(x)); Vec<T>   *)
(* is a sequence.  A Redis reply of nil is None.                            *)
(***************************************************************************)
EXTENDS Integers, Sequences, FiniteSets, TLC

None == <<>>
Some(x) == <<x>>

(***************************************************************************)
(* Bounds of the model.                                                     *)
(***************************************************************************)
\* longest chain list a behaviour may build (RPUSH is unbounded in the code)
MaxChainLen == 3
\* largest access_count a metadata hash may reach (HINCRBY is unbounded)
MaxAccess == 2
\* most transient store errors in one behaviour
MaxFaults == 1

(***************************************************************************)
(* Program constants.                                                       *)
(***************************************************************************)
\* request.limit.unwrap_or(20)
DefaultLimit == 20
\* the expiry of a query-cache entry, in seconds
CacheTtl == 3600

(***************************************************************************)
(* models/mod.rs: Memory, MemoryMetadata, SearchRequest.                    *)
(***************************************************************************)
MemoryMetadata(category, tags, chain_id) ==
  [category |-> category, tags |-> tags, importance |-> 5, chain_id |-> chain_id,
   parent_id |-> None, framework |-> None, source |-> "mcp"]

Memory(id, instance_id, content, category, tags, chain_id) ==
  [id |-> id, instance_id |-> instance_id, content |-> content, embedding |-> None,
   metadata |-> MemoryMetadata(category, tags, chain_id),
   created_at |-> "2025-01-01T00:00:00+00:00", updated_at |-> "2025-01-02T00:00:00+00:00",
   access_count |-> 0, relevance_score |-> 0]

SearchRequest(query, limit, category_filter, tags_filter, instance_filter, hybrid_mode) ==
  [query |-> query, limit |-> limit, threshold |-> Some(7),
   category_filter |-> category_filter, tags_filter |-> tags_filter,
   instance_filter |-> instance_filter, hybrid_mode |-> hybrid_mode]

(***************************************************************************)
(* serde_json: a JSON value is a record tagged by its JSON type.  Option    *)
(* None is written as null; a value that does not have the shape of the     *)
(* Rust type it is read into is a decode error.                             *)
(***************************************************************************)
JNull == [j |-> "null"]
JStr(s) == [j |-> "string", s |-> s]
JNum(n) == [j |-> "number", n |-> n]
JArr(a) == [j |-> "array", a |-> a]
JObj(o) == [j |-> "object", o |-> o]

JOptStr(opt) == IF opt = None THEN JNull ELSE JStr(opt[1])
JStrs(v) == JArr([i \in DOMAIN v |-> JStr(v[i])])
JOptNums(opt) == IF opt = None THEN JNull ELSE JArr([i \in DOMAIN opt[1] |-> JNum(opt[1][i])])

IsJStr(x) == x.j = "string"
IsJNum(x) == x.j = "number"
IsJOptStr(x) == x.j \in {"null", "string"}
IsJStrs(x) == x.j = "array" /\ \A i \in DOMAIN x.a : IsJStr(x.a[i])
IsJOptNums(x) == x.j = "null" \/ (x.j = "array" /\ \A i \in DOMAIN x.a : IsJNum(x.a[i]))

UnOptStr(x) == IF x.j = "null" THEN None ELSE Some(x.s)
UnStrs(x) == [i \in DOMAIN x.a |-> x.a[i].s]
UnOptNums(x) == IF x.j = "null" THEN None ELSE Some([i \in DOMAIN x.a |-> x.a[i].n])

\* MetadataToJson that writes the tags in reverse order
MetadataToJson_reversed(md) ==
  JObj([category |-> JOptStr(md.category),
        tags |-> JStrs([i \in DOMAIN md.tags |-> md.tags[Len(md.tags) + 1 - i]]),
        importance |-> JNum(md.importance), chain_id |-> JOptStr(md.chain_id),
        parent_id |-> JOptStr(md.parent_id), framework |-> JOptStr(md.framework),
        source |-> JStr(md.source)])

\* serde_json::to_string(memory): derive(Serialize) on MemoryMetadata and Memory
MetadataToJson(md) ==
  JObj([category |-> JOptStr(md.category), tags |-> JStrs(md.tags),
        importance |-> JNum(md.importance), chain_id |-> JOptStr(md.chain_id),
        parent_id |-> JOptStr(md.parent_id), framework |-> JOptStr(md.framework),
        source |-> JStr(md.source)])

MemoryToJson(m) ==
  JObj([id |-> JStr(m.id), instance_id |-> JStr(m.instance_id), content |-> JStr(m.content),
        embedding |-> JOptNums(m.embedding), metadata |-> MetadataToJson(m.metadata),
        created_at |-> JStr(m.created_at), updated_at |-> JStr(m.updated_at),
        access_count |-> JNum(m.access_count), relevance_score |-> JNum(m.relevance_score)])

MetadataFields == {"category", "tags", "importance", "chain_id", "parent_id", "framework", "source"}
MemoryFields == {"id", "instance_id", "content", "embedding", "metadata", "created_at",
                 "updated_at", "access_count", "relevance_score"}

IsMetadataJson(x) ==
  /\ x.j = "object"
  /\ DOMAIN x.o = MetadataFields
  /\ IsJOptStr(x.o.category) /\ IsJStrs(x.o.tags) /\ IsJNum(x.o.importance)
  /\ IsJOptStr(x.o.chain_id) /\ IsJOptStr(x.o.parent_id) /\ IsJOptStr(x.o.framework)
  /\ IsJStr(x.o.source)

IsMemoryJson(x) ==
  /\ x.j = "object"
  /\ DOMAIN x.o = MemoryFields
  /\ IsJStr(x.o.id) /\ IsJStr(x.o.instance_id) /\ IsJStr(x.o.content)
  /\ IsJOptNums(x.o.embedding) /\ IsMetadataJson(x.o.metadata)
  /\ IsJStr(x.o.created_at) /\ IsJStr(x.o.updated_at)
  /\ IsJNum(x.o.access_count) /\ IsJNum(x.o.relevance_score)

\* serde_json::from_str::<Memory>: None is a decode error, Some(m) the Memory read
MetadataFromJson(x) ==
  [category |-> UnOptStr(x.o.category), tags |-> UnStrs(x.o.tags),
   importance |-> x.o.importance.n, chain_id |-> UnOptStr(x.o.chain_id),
   parent_id |-> UnOptStr(x.o.parent_id), framework |-> UnOptStr(x.o.framework),
   source |-> x.o.source.s]

MemoryFromJson(x) ==
  IF ~IsMemoryJson(x) THEN None
  ELSE Some([id |-> x.o.id.s, instance_id |-> x.o.instance_id.s, content |-> x.o.content.s,
             embedding |-> UnOptNums(x.o.embedding), metadata |-> MetadataFromJson(x.o.metadata),
             created_at |-> x.o.created_at.s, updated_at |-> x.o.updated_at.s,
             access_count |-> x.o.access_count.n, relevance_score |-> x.o.relevance_score.n])

\* serde_json::to_string(&Vec<Memory>) and serde_json::from_str::<Vec<Memory>>
MemoriesToJson(ms) == JArr([i \in DOMAIN ms |-> MemoryToJson(ms[i])])

\* MemoriesFromJson that rejects every cached list
MemoriesFromJson_rejecting(x) == None

MemoriesFromJson(x) ==
  IF x.j /= "array" \/ \E i \in DOMAIN x.a : ~IsMemoryJson(x.a[i]) THEN None
  ELSE Some([i \in DOMAIN x.a |-> MemoryFromJson(x.a[i])[1]])

(***************************************************************************)
(* The Redis keyspace: a function from the keys that exist to their values. *)
(* A key is the tuple of the parts that the code joins with ":".  A command *)
(* replies [ok, db, val]; ok = FALSE is an error reply (WRONGTYPE, invalid  *)
(* expire time) and leaves the keyspace as it was.                          *)
(***************************************************************************)
EmptyDb == [k \in {} |-> None]

Str(v, ttl) == [type |-> "string", str |-> v, ttl |-> ttl]
Hash(h) == [type |-> "hash", hash |-> h]
SetOf(s) == [type |-> "set", members |-> s]
ListOf(l) == [type |-> "list", items |-> l]

Put(db, k, v) == [x \in DOMAIN db \cup {k} |-> IF x = k THEN v ELSE db[x]]
Remove(db, k) == [x \in DOMAIN db \ {k} |-> db[x]]
Exists(db, k) == k \in DOMAIN db
IsType(db, k, t) == Exists(db, k) /\ db[k].type = t

Reply(ok, db, val) == [ok |-> ok, db |-> db, val |-> val]

\* GET key
GET(db, k) ==
  IF ~Exists(db, k) THEN Reply(TRUE, db, None)
  ELSE IF db[k].type /= "string" THEN Reply(FALSE, db, None)
  ELSE Reply(TRUE, db, Some(db[k].str))

\* SET key value: replaces a value of any type and clears the expiry
SET(db, k, v) == Reply(TRUE, Put(db, k, Str(v, FALSE)), None)

\* SETEX key seconds value: seconds = 0 is "invalid expire time"
SETEX(db, k, v, seconds) ==
  IF seconds = 0 THEN Reply(FALSE, db, None)
  ELSE Reply(TRUE, Put(db, k, Str(v, TRUE)), None)

\* HINCRBY key field n: creates the hash and the field when absent
HINCRBY(db, k, field, n) ==
  IF ~Exists(db, k) THEN Reply(TRUE, Put(db, k, Hash((field :> n))), Some(n))
  ELSE IF db[k].type /= "hash" THEN Reply(FALSE, db, None)
  ELSE LET h == db[k].hash
           old == IF field \in DOMAIN h THEN h[field] ELSE 0
       IN Reply(TRUE, Put(db, k, Hash((field :> old + n) @@ h)), Some(old + n))

\* HSET key field value
HSET(db, k, field, v) ==
  IF ~Exists(db, k) THEN Reply(TRUE, Put(db, k, Hash((field :> v))), None)
  ELSE IF db[k].type /= "hash" THEN Reply(FALSE, db, None)
  ELSE Reply(TRUE, Put(db, k, Hash((field :> v) @@ db[k].hash)), None)

\* SADD key member
SADD(db, k, member) ==
  IF ~Exists(db, k) THEN Reply(TRUE, Put(db, k, SetOf({member})), None)
  ELSE IF db[k].type /= "set" THEN Reply(FALSE, db, None)
  ELSE Reply(TRUE, Put(db, k, SetOf(db[k].members \cup {member})), None)

\* SREM key member: a set left empty is removed
SREM(db, k, member) ==
  IF ~Exists(db, k) THEN Reply(TRUE, db, None)
  ELSE IF db[k].type /= "set" THEN Reply(FALSE, db, None)
  ELSE LET rest == db[k].members \ {member}
       IN Reply(TRUE, IF rest = {} THEN Remove(db, k) ELSE Put(db, k, SetOf(rest)), None)

\* LPUSH key element, in the place of RPUSH
RPUSH_at_head(db, k, e) ==
  IF ~Exists(db, k) THEN Reply(TRUE, Put(db, k, ListOf(<<e>>)), None)
  ELSE IF db[k].type /= "list" THEN Reply(FALSE, db, None)
  ELSE Reply(TRUE, Put(db, k, ListOf(<<e>> \o db[k].items)), None)

\* RPUSH key element
RPUSH(db, k, e) ==
  IF ~Exists(db, k) THEN Reply(TRUE, Put(db, k, ListOf(<<e>>)), None)
  ELSE IF db[k].type /= "list" THEN Reply(FALSE, db, None)
  ELSE Reply(TRUE, Put(db, k, ListOf(Append(db[k].items, e))), None)

\* LREM key 0 element: removes every occurrence; a list left empty is removed
LREM(db, k, e) ==
  IF ~Exists(db, k) THEN Reply(TRUE, db, None)
  ELSE IF db[k].type /= "list" THEN Reply(FALSE, db, None)
  ELSE LET rest == SelectSeq(db[k].items, LAMBDA x : x /= e)
       IN Reply(TRUE, IF rest = <<>> THEN Remove(db, k) ELSE Put(db, k, ListOf(rest)), None)

\* DEL key
DEL(db, k) == Reply(TRUE, Remove(db, k), None)

(***************************************************************************)
(* RedisCache: the key scheme.                                              *)
(***************************************************************************)
make_thought_key(prefix, thought_id) == <<prefix, "Thoughts", thought_id>>
make_metadata_key(prefix, thought_id) == <<prefix, "thought_meta", thought_id>>
make_tag_key(prefix, tag) == <<prefix, "tags", tag>>
make_chain_key(prefix, chain_id) == <<prefix, "chains", chain_id>>
make_cache_key(query_hash) == <<"um", "cache", query_hash>>

\* format!("{:x}", md5::compute(format!("{:?}", request))): the Debug text of the
\* whole request (md5 taken as injective on the requests of the model)
query_hash(request) ==
  ToString(<<request.query, request.limit, request.threshold, request.category_filter,
             request.tags_filter, request.instance_filter, request.hybrid_mode>>)

\* the keys that SCAN MATCH "<prefix>:Thoughts:*" enumerates, as thought ids
ScanIds(db, prefix) == {k[3] : k \in {x \in DOMAIN db : x[1] = prefix /\ x[2] = "Thoughts"}}

(***************************************************************************)
(* A handler's outcome: the keyspace it leaves, the number n of store       *)
(* calls it has made (pool.get() and every command count), whether it       *)
(* returned Ok, and the value.  f is the call that fails with a transient   *)
(* store error (0: none does).                                              *)
(***************************************************************************)
Out(db, n, ok, val) == [db |-> db, n |-> n, ok |-> ok, val |-> val]

\* the reply of command r issued as call number n under fault f
Sent(r, db, n, f) == IF n = f THEN Reply(FALSE, db, None) ELSE r

\* chrono::Utc::now().to_rfc3339()
Now == "now"

\* `let v = <call>;` followed by the rest of the function body
Bind(v, rest(_)) == rest(v)

\* get whose access-count update is made with `?`
get_strict(db, prefix, key, n, f) ==
  IF n + 1 = f THEN Out(db, n + 1, FALSE, None)
  ELSE Bind(Sent(GET(db, make_thought_key(prefix, key)), db, n + 2, f), LAMBDA data :
    IF ~data.ok THEN Out(db, n + 2, FALSE, None)
    ELSE IF data.val = None THEN Out(db, n + 2, TRUE, None)
    ELSE Bind(MemoryFromJson(data.val[1]), LAMBDA memory :
      IF memory = None THEN Out(db, n + 2, FALSE, None)
      ELSE Bind(Sent(HINCRBY(db, make_metadata_key(prefix, key), "access_count", 1), db, n + 3, f),
                LAMBDA r1 :
           IF ~r1.ok THEN Out(db, n + 3, FALSE, None)
           ELSE Bind(Sent(HSET(r1.db, make_metadata_key(prefix, key), "last_accessed", Now),
                          r1.db, n + 4, f),
                     LAMBDA r2 : Out(r2.db, n + 4, TRUE, memory)))))

\* RedisCache::get
get(db, prefix, key, n, f) ==
  IF n + 1 = f THEN Out(db, n + 1, FALSE, None)
  ELSE Bind(Sent(GET(db, make_thought_key(prefix, key)), db, n + 2, f), LAMBDA data :
    IF ~data.ok THEN Out(db, n + 2, FALSE, None)
    ELSE IF data.val = None THEN Out(db, n + 2, TRUE, None)
    ELSE Bind(MemoryFromJson(data.val[1]), LAMBDA memory :
      IF memory = None THEN Out(db, n + 2, FALSE, None)
      ELSE Bind(Sent(HINCRBY(db, make_metadata_key(prefix, key), "access_count", 1), db, n + 3, f),
                LAMBDA r1 :
           Bind(Sent(HSET(r1.db, make_metadata_key(prefix, key), "last_accessed", Now), r1.db, n + 4, f),
                LAMBDA r2 : Out(r2.db, n + 4, TRUE, memory)))))

\* the metadata value of RedisCache::set (serde_json::json!)
MetaJson(prefix, key, memory) ==
  JObj([thought_id |-> JStr(key), instance |-> JStr(prefix),
        importance |-> JNum(memory.metadata.importance),
        category |-> JOptStr(memory.metadata.category),
        tags |-> JStrs(memory.metadata.tags),
        created_at |-> JStr(memory.created_at),
        last_accessed |-> JStr(memory.created_at),
        access_count |-> JNum(0)])

\* RedisCache::set, "Index tags": SADD for tags[i..]
RECURSIVE index_tags(_, _, _, _, _, _, _)

\* index_tags that stops before the last tag
index_tags_but_last(db, prefix, key, tags, i, n, f) ==
  IF i >= Len(tags) THEN Out(db, n, TRUE, None)
  ELSE Bind(Sent(SADD(db, make_tag_key(prefix, tags[i]), key), db, n + 1, f), LAMBDA r :
    IF ~r.ok THEN Out(db, n + 1, FALSE, None)
    ELSE index_tags(r.db, prefix, key, tags, i + 1, n + 1, f))

index_tags(db, prefix, key, tags, i, n, f) ==
  IF i > Len(tags) THEN Out(db, n, TRUE, None)
  ELSE Bind(Sent(SADD(db, make_tag_key(prefix, tags[i]), key), db, n + 1, f), LAMBDA r :
    IF ~r.ok THEN Out(db, n + 1, FALSE, None)
    ELSE index_tags(r.db, prefix, key, tags, i + 1, n + 1, f))

\* RedisCache::set, "Set the thought with optional TTL"
set_thought(db, thought_key, json, ttl_seconds) ==
  IF ttl_seconds /= None THEN SETEX(db, thought_key, json, ttl_seconds[1])
  ELSE SET(db, thought_key, json)

\* set that undoes its writes when one of them fails
set_rolling_back(db, prefix, key, memory, ttl_seconds, f) ==
  IF 1 = f THEN Out(db, 1, FALSE, None)
  ELSE Bind(Sent(set_thought(db, make_thought_key(prefix, key), MemoryToJson(memory), ttl_seconds),
                 db, 2, f), LAMBDA r1 :
    IF ~r1.ok THEN Out(db, 2, FALSE, None)
    ELSE Bind(Sent(SET(r1.db, make_metadata_key(prefix, key), MetaJson(prefix, key, memory)),
                   r1.db, 3, f), LAMBDA r2 :
      IF ~r2.ok THEN Out(db, 3, FALSE, None)
      ELSE Bind(index_tags(r2.db, prefix, key, memory.metadata.tags, 1, 3, f), LAMBDA r3 :
        IF ~r3.ok THEN Out(db, r3.n, FALSE, None)
        ELSE IF memory.metadata.chain_id = None THEN Out(r3.db, r3.n, TRUE, None)
        ELSE Bind(Sent(RPUSH(r3.db, make_chain_key(prefix, memory.metadata.chain_id[1]), key),
                       r3.db, r3.n + 1, f),
                  LAMBDA r4 : Out(IF r4.ok THEN r4.db ELSE db, r3.n + 1, r4.ok, None)))))

\* RedisCache::set
set(db, prefix, key, memory, ttl_seconds, f) ==
  IF 1 = f THEN Out(db, 1, FALSE, None)
  ELSE Bind(Sent(set_thought(db, make_thought_key(prefix, key), MemoryToJson(memory), ttl_seconds),
                 db, 2, f), LAMBDA r1 :
    IF ~r1.ok THEN Out(db, 2, FALSE, None)
    ELSE Bind(Sent(SET(r1.db, make_metadata_key(prefix, key), MetaJson(prefix, key, memory)),
                   r1.db, 3, f), LAMBDA r2 :
      IF ~r2.ok THEN Out(r1.db, 3, FALSE, None)
      ELSE Bind(index_tags(r2.db, prefix, key, memory.metadata.tags, 1, 3, f), LAMBDA r3 :
        IF ~r3.ok THEN r3
        ELSE IF memory.metadata.chain_id = None THEN Out(r3.db, r3.n, TRUE, None)
        ELSE Bind(Sent(RPUSH(r3.db, make_chain_key(prefix, memory.metadata.chain_id[1]), key),
                       r3.db, r3.n + 1, f),
                  LAMBDA r4 : Out(r4.db, r3.n + 1, r4.ok, None)))))

\* RedisCache::invalidate, "Remove from tags": SREM for tags[i..]
RECURSIVE remove_tags(_, _, _, _, _, _, _)

\* remove_tags that stops before the last tag
remove_tags_but_last(db, prefix, key, tags, i, n, f) ==
  IF i >= Len(tags) THEN Out(db, n, TRUE, None)
  ELSE Bind(Sent(SREM(db, make_tag_key(prefix, tags[i]), key), db, n + 1, f), LAMBDA r :
    IF ~r.ok THEN Out(db, n + 1, FALSE, None)
    ELSE remove_tags(r.db, prefix, key, tags, i + 1, n + 1, f))

remove_tags(db, prefix, key, tags, i, n, f) ==
  IF i > Len(tags) THEN Out(db, n, TRUE, None)
  ELSE Bind(Sent(SREM(db, make_tag_key(prefix, tags[i]), key), db, n + 1, f), LAMBDA r :
    IF ~r.ok THEN Out(db, n + 1, FALSE, None)
    ELSE remove_tags(r.db, prefix, key, tags, i + 1, n + 1, f))

\* delete_thought that deletes the metadata key only
delete_thought_meta_only(db, prefix, key, n, f) ==
  Bind(Sent(DEL(db, make_metadata_key(prefix, key)), db, n + 2, f),
       LAMBDA r2 : Out(r2.db, n + 2, r2.ok, None))

\* delete_thought that reports a primary record that is not there as an error
delete_thought_must_exist(db, prefix, key, n, f) ==
  Bind(Sent(DEL(db, make_thought_key(prefix, key)), db, n + 1, f), LAMBDA r1 :
    IF ~r1.ok \/ ~Exists(db, make_thought_key(prefix, key)) THEN Out(db, n + 1, FALSE, None)
    ELSE Bind(Sent(DEL(r1.db, make_metadata_key(prefix, key)), r1.db, n + 2, f),
              LAMBDA r2 : Out(r2.db, n + 2, r2.ok, None)))

\* RedisCache::invalidate, "Delete the thought and metadata"
delete_thought(db, prefix, key, n, f) ==
  Bind(Sent(DEL(db, make_thought_key(prefix, key)), db, n + 1, f), LAMBDA r1 :
    IF ~r1.ok THEN Out(db, n + 1, FALSE, None)
    ELSE Bind(Sent(DEL(r1.db, make_metadata_key(prefix, key)), r1.db, n + 2, f),
              LAMBDA r2 : Out(r2.db, n + 2, r2.ok, None)))

\* RedisCache::invalidate, "Remove from chain", then the deletes
remove_from_chain(db, prefix, key, chain_id, n, f) ==
  IF chain_id = None THEN delete_thought(db, prefix, key, n, f)
  ELSE Bind(Sent(LREM(db, make_chain_key(prefix, chain_id[1]), key), db, n + 1, f), LAMBDA r2 :
    IF ~r2.ok THEN Out(db, n + 1, FALSE, None)
    ELSE delete_thought(r2.db, prefix, key, n + 1, f))

\* RedisCache::invalidate
invalidate(db, prefix, key, f) ==
  IF 1 = f THEN Out(db, 1, FALSE, None)
  ELSE Bind(get(db, prefix, key, 1, f), LAMBDA g :
    IF ~g.ok THEN g
    ELSE IF g.val = None THEN delete_thought(g.db, prefix, key, g.n, f)
    ELSE Bind(remove_tags(g.db, prefix, key, g.val[1].metadata.tags, 1, g.n, f), LAMBDA r1 :
      IF ~r1.ok THEN r1
      ELSE remove_from_chain(r1.db, prefix, key, g.val[1].metadata.chain_id, r1.n, f)))

\* request.limit.unwrap_or(20)
limit_of(request) == IF request.limit = None THEN DefaultLimit ELSE request.limit[1]

\* passes_filters whose tags filter asks for every tag
passes_filters_all_tags(request, memory) ==
  /\ request.category_filter /= None => memory.metadata.category = request.category_filter
  /\ request.tags_filter /= None =>
       \A i \in DOMAIN request.tags_filter[1] :
         \E t \in DOMAIN memory.metadata.tags : memory.metadata.tags[t] = request.tags_filter[1][i]
  /\ request.instance_filter /= None =>
       \E i \in DOMAIN request.instance_filter[1] : request.instance_filter[1][i] = memory.instance_id

\* RedisCache::search_cached, "Apply filters": a record passes when none of the
\* three filters makes the loop `continue`
passes_filters(request, memory) ==
  /\ request.category_filter /= None => memory.metadata.category = request.category_filter
  /\ request.tags_filter /= None =>
       \E i \in DOMAIN request.tags_filter[1] :
         \E t \in DOMAIN memory.metadata.tags : memory.metadata.tags[t] = request.tags_filter[1][i]
  /\ request.instance_filter /= None =>
       \E i \in DOMAIN request.instance_filter[1] : request.instance_filter[1][i] = memory.instance_id

\* RedisCache::search_cached, `for key in keys`: keys[i..] of one SCAN page
RECURSIVE scan_keys(_, _, _, _, _, _, _, _)
scan_keys(db, prefix, request, keys, i, results, n, f) ==
  IF i > Len(keys) THEN Out(db, n, TRUE, results)
  ELSE Bind(get(db, prefix, keys[i], n, f), LAMBDA g :
    IF ~g.ok THEN Out(g.db, g.n, FALSE, results)
    ELSE Bind(IF g.val = None \/ ~passes_filters(request, g.val[1]) THEN results
              ELSE Append(results, g.val[1]), LAMBDA pushed :
      IF Len(pushed) > Len(results) /\ Len(pushed) >= limit_of(request)
      THEN Out(g.db, g.n, TRUE, pushed)
      ELSE scan_keys(g.db, prefix, request, keys, i + 1, pushed, g.n, f)))

\* RedisCache::search_cached, `loop`: one SCAN call per page; the cursor is 0 on
\* the last page
RECURSIVE scan_pages(_, _, _, _, _, _, _, _)
scan_pages(db, prefix, request, pages, p, results, n, f) ==
  IF n + 1 = f THEN Out(db, n + 1, FALSE, results)
  ELSE Bind(scan_keys(db, prefix, request, pages[p], 1, results, n + 1, f), LAMBDA r :
    IF ~r.ok THEN r
    ELSE IF p = Len(pages) \/ Len(r.val) >= limit_of(request) THEN r
    ELSE scan_pages(r.db, prefix, request, pages, p + 1, r.val, r.n, f))

\* RedisCache::search_cached, "Try to get cached results": None is a miss
cached_result(db, cache_key, f) ==
  Bind(Sent(GET(db, cache_key), db, 2, f), LAMBDA c :
    IF c.ok /\ c.val /= None THEN MemoriesFromJson(c.val[1]) ELSE None)

\* search_cached that caches an empty result too
search_cached_caching_empty(db, prefix, request, pages, f) ==
  IF 1 = f THEN Out(db, 1, FALSE, None)
  ELSE Bind(cached_result(db, make_cache_key(query_hash(request)), f), LAMBDA cached :
    IF cached /= None THEN Out(db, 2, TRUE, cached[1])
    ELSE Bind(scan_pages(db, prefix, request, pages, 1, <<>>, 2, f), LAMBDA s :
      IF ~s.ok THEN Out(s.db, s.n, FALSE, None)
      ELSE Bind(Sent(SETEX(s.db, make_cache_key(query_hash(request)), MemoriesToJson(s.val), CacheTtl),
                     s.db, s.n + 1, f),
                LAMBDA w : Out(w.db, s.n + 1, TRUE, s.val))))

\* search_cached whose write of the query-cache entry is made with `?`
search_cached_strict_write(db, prefix, request, pages, f) ==
  IF 1 = f THEN Out(db, 1, FALSE, None)
  ELSE Bind(cached_result(db, make_cache_key(query_hash(request)), f), LAMBDA cached :
    IF cached /= None THEN Out(db, 2, TRUE, cached[1])
    ELSE Bind(scan_pages(db, prefix, request, pages, 1, <<>>, 2, f), LAMBDA s :
      IF ~s.ok THEN Out(s.db, s.n, FALSE, None)
      ELSE IF s.val = <<>> THEN s
      ELSE Bind(Sent(SETEX(s.db, make_cache_key(query_hash(request)), MemoriesToJson(s.val), CacheTtl),
                     s.db, s.n + 1, f),
                LAMBDA w : Out(w.db, s.n + 1, w.ok, IF w.ok THEN s.val ELSE None))))

\* RedisCache::search_cached
search_cached(db, prefix, request, pages, f) ==
  IF 1 = f THEN Out(db, 1, FALSE, None)
  ELSE Bind(cached_result(db, make_cache_key(query_hash(request)), f), LAMBDA cached :
    IF cached /= None THEN Out(db, 2, TRUE, cached[1])
    ELSE Bind(scan_pages(db, prefix, request, pages, 1, <<>>, 2, f), LAMBDA s :
      IF ~s.ok THEN Out(s.db, s.n, FALSE, None)
      ELSE IF s.val = <<>> THEN s
      ELSE Bind(Sent(SETEX(s.db, make_cache_key(query_hash(request)), MemoriesToJson(s.val), CacheTtl),
                     s.db, s.n + 1, f),
                LAMBDA w : Out(w.db, s.n + 1, TRUE, s.val))))

(***************************************************************************)
(* What SCAN may return for a set of matching keys: the keys in any order,  *)
(* in one page or cut into two.                                             *)
(***************************************************************************)
RECURSIVE Perms(_)
Perms(S) == IF S = {} THEN {<<>>}
            ELSE UNION {{<<x>> \o p : p \in Perms(S \ {x})} : x \in S}

ScanPages(db, prefix) ==
  UNION {{IF cut = Len(p) THEN <<p>> ELSE <<SubSeq(p, 1, cut), SubSeq(p, cut + 1, Len(p))>> :
            cut \in 0..Len(p)} : p \in Perms(ScanIds(db, prefix))}

(***************************************************************************)
(* Search Layer.  The vector index is a function from the ids of the points *)
(* that exist to [vector, payload]; the payload is the field map of the     *)
(* JSON object the Memory serializes to.  env is what the outside world     *)
(* does during one call: which remote call fails (failure), how the index   *)
(* orders points of equal score (order, a sequence of point ids), the uuid  *)
(* drawn for the result (search_id).                                        *)
(***************************************************************************)
\* EmbeddingGenerator::generate_embedding: a fixed function of the text
Embed(text) == IF text \in {"outage", "outage postmortem"} THEN <<1, 0>> ELSE <<0, 1>>

\* Distance::Cosine on the unit vectors of the model
Score(v, w) == v[1] * w[1] + v[2] * w[2]

\* QdrantSearch::search, "Add filters if specified": Filter::must of one
\* condition on metadata.category and one condition per tag of the tags filter
filter_holds(request, payload) ==
  /\ request.category_filter /= None =>
       payload.metadata.o.category = JStr(request.category_filter[1])
  /\ request.tags_filter /= None =>
       \A i \in DOMAIN request.tags_filter[1] :
         \E t \in DOMAIN payload.metadata.o.tags.a :
           payload.metadata.o.tags.a[t] = JStr(request.tags_filter[1][i])

PositionIn(seq, x) == CHOOSE i \in DOMAIN seq : seq[i] = x

\* search_points: the ids of the points that pass the filter, best score first,
\* at most `limit` of them
search_points(points, query_embedding, limit, request, order) ==
  LET hits == SelectSeq(order, LAMBDA id : id \in DOMAIN points /\ filter_holds(request, points[id].payload))
      rank(id) == Score(query_embedding, points[id].vector) * (Len(order) + 1)
                    + (Len(order) - PositionIn(order, id))
      sorted == SortSeq(hits, LAMBDA a, b : rank(a) > rank(b))
  IN SubSeq(sorted, 1, IF Len(sorted) < limit THEN Len(sorted) ELSE limit)

Result(ok, val) == [ok |-> ok, val |-> val]

\* QdrantSearch::search, "Convert results to Memory objects"
decode_points(points, ids, query_embedding, search_id) ==
  Bind([i \in DOMAIN ids |-> MemoryFromJson(JObj(points[ids[i]].payload))], LAMBDA decoded :
    IF \E i \in DOMAIN decoded : decoded[i] = None THEN Result(FALSE, "Serialization")
    ELSE Result(TRUE, [memories |-> [i \in DOMAIN decoded |-> decoded[i][1]],
                       search_id |-> search_id,
                       query_embedding |-> Some(query_embedding), cache_hits |-> 0,
                       total_results |-> Len(decoded), search_time_ms |-> 1]))

\* QdrantSearch::search
search(points, request, env) ==
  IF env.failure = "embedding" THEN Result(FALSE, "OpenAI")
  ELSE IF env.failure = "qdrant" THEN Result(FALSE, "Qdrant")
  ELSE decode_points(points,
                     search_points(points, Embed(request.query), limit_of(request), request, env.order),
                     Embed(request.query), env.search_id)

\* index that asks the Embedding Provider whatever the memory carries
index_always_embedding(points, memory, env) ==
  IF env.failure = "embedding" THEN Result(FALSE, points)
  ELSE IF env.failure = "qdrant" THEN Result(FALSE, points)
  ELSE Result(TRUE, Put(points, memory.id,
                        [vector |-> Embed(memory.content), payload |-> MemoryToJson(memory).o]))

\* QdrantSearch::index
index(points, memory, env) ==
  IF memory.embedding = None /\ env.failure = "embedding" THEN Result(FALSE, points)
  ELSE IF env.failure = "qdrant" THEN Result(FALSE, points)
  ELSE LET embedding == IF memory.embedding /= None THEN memory.embedding[1] ELSE Embed(memory.content)
       IN Result(TRUE, Put(points, memory.id, [vector |-> embedding, payload |-> MemoryToJson(memory).o]))

\* QdrantSearch::delete
delete(points, id, env) ==
  IF env.failure = "qdrant" THEN Result(FALSE, points) ELSE Result(TRUE, Remove(points, id))

\* QdrantSearch::update_embedding, get_points: the payload of the point when it
\* exists.  The request is built without with_payload, and whether the server then
\* returns the payload is decided outside this code: env.with_payload is either.
get_points(points, id, env) ==
  IF env.failure = "qdrant" THEN Result(FALSE, None)
  ELSE IF id \notin DOMAIN points THEN Result(TRUE, None)
  ELSE Result(TRUE, Some(IF env.with_payload THEN points[id].payload ELSE <<>>))

\* QdrantSearch::update_embedding, upsert_points of the fetched payload with the
\* new vector
upsert_points(points, id, embedding, payload, env) ==
  IF env.failure = "qdrant" THEN Result(FALSE, points)
  ELSE Result(TRUE, Put(points, id, [vector |-> embedding, payload |-> payload]))

(***************************************************************************)
(* Retrieval Coordinator.  A response is [status, body] with the JSON body  *)
(* of CallToolResult::success, or [status, cause] for an ErrorData; trace   *)
(* lists the layer calls the request made, with what each returned.         *)
(***************************************************************************)
\* serde_json::to_value(search_result)
SearchResultToJson(r) ==
  JObj([memories |-> MemoriesToJson(r.memories), search_id |-> JStr(r.search_id),
        query_embedding |-> JOptNums(r.query_embedding), cache_hits |-> JNum(r.cache_hits),
        total_results |-> JNum(r.total_results), search_time_ms |-> JNum(r.search_time_ms)])

Called(layer, ok, val) == [layer |-> layer, ok |-> ok, val |-> val]
Answer(db, status, body, trace) == [db |-> db, status |-> status, body |-> body, trace |-> trace]

\* rag_search, `match self.search.search(&request).await` (both branches)
search_branch(db, points, request, env, trace) ==
  Bind(search(points, request, env), LAMBDA s :
    Answer(db, IF s.ok THEN "ok" ELSE "error",
           IF s.ok THEN SearchResultToJson(s.val) ELSE s.val,
           Append(trace, Called("search", s.ok, s.val))))

\* rag_search, the body made of the cache results
cache_body(cache_results) ==
  JObj([memories |-> MemoriesToJson(cache_results), source |-> JStr("cache"),
        count |-> JNum(Len(cache_results))])

\* hybrid_branch with a merge: on a cache hit the Search Layer is called too and
\* its memories are appended
hybrid_branch_merge(db, points, prefix, request, pages, f, env) ==
  Bind(search_cached(db, prefix, request, pages, f), LAMBDA c :
    IF c.ok /\ c.val /= <<>>
    THEN Bind(search(points, request, env), LAMBDA s :
           Answer(c.db, "ok", cache_body(c.val \o (IF s.ok THEN s.val.memories ELSE <<>>)),
                  <<Called("cache", c.ok, c.val), Called("search", s.ok, s.val)>>))
    ELSE search_branch(c.db, points, request, env, <<Called("cache", c.ok, c.val)>>))

\* hybrid_branch without the fallback on a cache error
hybrid_branch_strict(db, points, prefix, request, pages, f, env) ==
  Bind(search_cached(db, prefix, request, pages, f), LAMBDA c :
    IF ~c.ok THEN Answer(c.db, "error", "Redis", <<Called("cache", c.ok, c.val)>>)
    ELSE IF c.val /= <<>>
    THEN Answer(c.db, "ok", cache_body(c.val), <<Called("cache", c.ok, c.val)>>)
    ELSE search_branch(c.db, points, request, env, <<Called("cache", c.ok, c.val)>>))

\* hybrid_branch whose fallback asks the Search Layer for one result only
hybrid_branch_short(db, points, prefix, request, pages, f, env) ==
  Bind(search_cached(db, prefix, request, pages, f), LAMBDA c :
    IF c.ok /\ c.val /= <<>>
    THEN Answer(c.db, "ok", cache_body(c.val), <<Called("cache", c.ok, c.val)>>)
    ELSE search_branch(c.db, points, [request EXCEPT !.limit = Some(1)], env,
                       <<Called("cache", c.ok, c.val)>>))

\* rag_search, `if request.hybrid_mode { match self.cache.search_cached(&request).await`
hybrid_branch(db, points, prefix, request, pages, f, env) ==
  Bind(search_cached(db, prefix, request, pages, f), LAMBDA c :
    IF c.ok /\ c.val /= <<>>
    THEN Answer(c.db, "ok", cache_body(c.val), <<Called("cache", c.ok, c.val)>>)
    ELSE search_branch(c.db, points, request, env, <<Called("cache", c.ok, c.val)>>))

\* SearchRequest built from RagSearchParams
request_of(params) ==
  [query |-> params.query, limit |-> Some(params.limit), threshold |-> Some(params.threshold),
   category_filter |-> params.category_filter, tags_filter |-> params.tags_filter,
   instance_filter |-> params.instance_filter, hybrid_mode |-> params.hybrid_mode]

\* rag_search that tries the cache whatever hybrid_mode says
rag_search_cache_first(db, points, prefix, params, pages, f, env) ==
  hybrid_branch(db, points, prefix, request_of(params), pages, f, env)

\* UnifiedRagService::rag_search
rag_search(db, points, prefix, params, pages, f, env) ==
  IF params.hybrid_mode THEN hybrid_branch(db, points, prefix, request_of(params), pages, f, env)
  ELSE search_branch(db, points, request_of(params), env, <<>>)

\* UnifiedRagService::rag_store
rag_store(params) ==
  [status |-> "ok", body |-> JObj([status |-> JStr("not_implemented"),
                                   message |-> JStr("Store functionality coming soon")])]

(***************************************************************************)
(* The inputs of the model.                                                 *)
(***************************************************************************)

mA == Memory("u1", "CC", "outage postmortem", Some("ops"), <<"a", "b">>, Some("c1"))
mB == Memory("u2", "DT", "deploy notes", None, <<"b">>, None)

rTagA == SearchRequest("outage", None, None, Some(<<"a">>), None, TRUE)
\* all three filters: category, two tags of which mA carries one, an allow-list
rOps == SearchRequest("outage", None, Some("ops"), Some(<<"b", "z">>), Some(<<"CC">>), TRUE)
rZero == SearchRequest("outage", Some(0), None, None, None, TRUE)
rOne == SearchRequest("outage", Some(1), None, None, None, TRUE)

(***************************************************************************)
(* State.  redis is the keyspace of the shared Redis store, qdrant the      *)
(* points of the vector index.  ret is the last completed call with what it *)
(* returned.  The others are                                                *)
(* history variables, written by the calls and read by no handler:          *)
(*   faults   the number of store calls that have failed so far            *)
(*   lastSet  the Memory of the last successful set of a primary key that   *)
(*            still exists and was not written since                        *)
(*   gone     the memories invalidated with success and not stored since    *)
(*   seen     per query hash, the result of the last successful             *)
(*            search_cached since the entry last expired, and whether the   *)
(*            query-cache entry holds it                                    *)
(*   chainLog the ids of the successful sets per chain key, in call order,  *)
(*            while no invalidate has run                                   *)
(* tasks holds the calls in flight that are modelled command by command:    *)
(* per call, the command it issues next and the locals it holds.            *)
(***************************************************************************)
VARIABLES redis, qdrant, ret, faults, lastSet, gone, seen, chainLog, tasks

vars == <<redis, qdrant, ret, faults, lastSet, gone, seen, chainLog, tasks>>

Init ==
  /\ redis = EmptyDb
  /\ qdrant = EmptyDb
  /\ ret = [op |-> "init"]
  /\ faults = 0
  /\ lastSet = EmptyDb
  /\ gone = {}
  /\ seen = EmptyDb
  /\ chainLog = [clean |-> TRUE, log |-> EmptyDb]
  /\ tasks = EmptyDb

\* the bounds on what RPUSH and HINCRBY may build
Bounded(db) ==
  \A k \in DOMAIN db :
    /\ db[k].type = "list" => Len(db[k].items) <= MaxChainLen
    /\ (db[k].type = "hash" /\ "access_count" \in DOMAIN db[k].hash) =>
         db[k].hash["access_count"] <= MaxAccess

\* store call number f of the handler fails (f = 0: none does)
Fault(f) ==
  /\ f /= 0 => faults < MaxFaults
  /\ faults' = IF f = 0 THEN faults ELSE faults + 1

Lookup(fn, k) == IF k \in DOMAIN fn THEN Some(fn[k]) ELSE None

\* CacheLayer::set called with the memory's id as key
Set(prefix, memory, ttl_seconds, f) ==
  \E o \in {set(redis, prefix, memory.id, memory, ttl_seconds, f)} :
  LET key == memory.id
      wrote == o.n >= 3
      chain == memory.metadata.chain_id
  IN /\ Fault(f)
     /\ Bounded(o.db)
     /\ redis' = o.db
     /\ UNCHANGED <<qdrant, tasks>>
     /\ ret' = [op |-> "set", prefix |-> prefix, key |-> key, ok |-> o.ok, wrote |-> wrote]
     /\ lastSet' = IF o.ok THEN Put(lastSet, <<prefix, key>>, memory)
                   ELSE IF wrote THEN Remove(lastSet, <<prefix, key>>)
                   ELSE lastSet
     /\ gone' = IF wrote THEN {g \in gone : ~(g[1] = prefix /\ g[2].id = key)} ELSE gone
     /\ chainLog' = IF chainLog.clean /\ o.ok /\ chain /= None
                    THEN LET ck == make_chain_key(prefix, chain[1])
                             old == IF ck \in DOMAIN chainLog.log THEN chainLog.log[ck] ELSE <<>>
                         IN [chainLog EXCEPT !.log = Put(chainLog.log, ck, Append(old, key))]
                    ELSE chainLog
     /\ UNCHANGED seen

\* CacheLayer::get
Get(prefix, key, f) ==
  \E o \in {get(redis, prefix, key, 0, f)} :
     /\ Fault(f)
     /\ Bounded(o.db)
     /\ redis' = o.db
     /\ UNCHANGED <<qdrant, tasks>>
     /\ ret' = [op |-> "get", prefix |-> prefix, key |-> key, fault |-> f /= 0,
                ok |-> o.ok, val |-> o.val]
     /\ UNCHANGED <<lastSet, gone, seen, chainLog>>

\* CacheLayer::search_cached; pages is what the SCAN calls return
SearchCached(prefix, request, pages, f) ==
  \E o \in {search_cached(redis, prefix, request, pages, f)} :
  LET h == query_hash(request)
      ck == make_cache_key(h)
  IN /\ Fault(f)
     /\ Bounded(o.db)
     /\ redis' = o.db
     /\ UNCHANGED <<qdrant, tasks>>
     /\ ret' = [op |-> "search_cached", prefix |-> prefix, request |-> request,
                fault |-> f /= 0, ok |-> o.ok, val |-> o.val, scanned |-> o.n > 2,
                prev |-> Lookup(seen, h)]
     /\ seen' = IF o.ok
                THEN Put(seen, h, [result |-> o.val,
                                   cached |-> Exists(o.db, ck)
                                               /\ o.db[ck] = Str(MemoriesToJson(o.val), TRUE)])
                ELSE seen
     /\ UNCHANGED <<lastSet, gone, chainLog>>

\* CacheLayer::invalidate
Invalidate(prefix, key, f) ==
  \E o \in {invalidate(redis, prefix, key, f)} :
  LET was == Lookup(lastSet, <<prefix, key>>)
  IN /\ Fault(f)
     /\ Bounded(o.db)
     /\ redis' = o.db
     /\ UNCHANGED <<qdrant, tasks>>
     /\ ret' = [op |-> "invalidate", prefix |-> prefix, key |-> key, fault |-> f /= 0,
                ok |-> o.ok, was |-> was,
                found |-> Exists(redis, make_thought_key(prefix, key))]
     /\ lastSet' = IF Exists(o.db, make_thought_key(prefix, key)) THEN lastSet
                   ELSE Remove(lastSet, <<prefix, key>>)
     /\ gone' = IF o.ok /\ was /= None THEN gone \cup {<<prefix, was[1]>>} ELSE gone
     /\ chainLog' = IF f = 1 THEN chainLog ELSE [clean |-> FALSE, log |-> EmptyDb]
     /\ UNCHANGED seen

\* Redis expires a key that was written with SETEX
Expire(k) ==
  /\ Exists(redis, k) /\ redis[k].type = "string" /\ redis[k].ttl
  /\ redis' = Remove(redis, k)
  /\ UNCHANGED <<qdrant, tasks>>
  /\ ret' = [op |-> "expire", key |-> k]
  /\ UNCHANGED faults
  /\ lastSet' = IF k[2] = "Thoughts" THEN Remove(lastSet, <<k[1], k[3]>>) ELSE lastSet
  /\ seen' = IF k[2] = "cache" THEN Remove(seen, k[3]) ELSE seen
  /\ UNCHANGED <<gone, chainLog>>

(***************************************************************************)
(* SpecCache: one service instance calling its Cache Layer.                 *)
(***************************************************************************)
\* the calls set(memory.id, memory, ttl_seconds) that are made
CacheStores == {<<mA, Some(60)>>, <<mB, None>>}
CacheKeys == {s[1].id : s \in CacheStores}
CacheRequests == {rTagA}
\* the calls that can fail in a run that makes n store calls when none fails
Faults(n) == 0..n

NextCache ==
  \/ \E s \in CacheStores :
       \E f \in Faults(set(redis, "CC", s[1].id, s[1], s[2], 0).n) : Set("CC", s[1], s[2], f)
  \/ \E k \in CacheKeys :
       \E f \in Faults(get(redis, "CC", k, 0, 0).n) : Get("CC", k, f)
  \/ \E r \in CacheRequests, pages \in ScanPages(redis, "CC") :
       \E f \in Faults(search_cached(redis, "CC", r, pages, 0).n) : SearchCached("CC", r, pages, f)
  \/ \E k \in CacheKeys :
       \E f \in Faults(invalidate(redis, "CC", k, 0).n) : Invalidate("CC", k, f)
  \/ \E k \in DOMAIN redis : Expire(k)

SpecCache == Init /\ [][NextCache]_vars

(***************************************************************************)
(* Spec: the service.  Its stores are filled through the two layers;        *)
(* rag_search reads them.                                                   *)
(***************************************************************************)
\* SearchLayer::index
Index(memory, env) ==
  \E o \in {index(qdrant, memory, env)} :
     /\ qdrant' = o.val
     /\ ret' = [op |-> "index", key |-> memory.id, memory |-> memory, ok |-> o.ok]
     /\ UNCHANGED <<redis, faults, lastSet, gone, seen, chainLog, tasks>>

\* SearchLayer::delete
Delete(id, env) ==
  \E o \in {delete(qdrant, id, env)} :
     /\ qdrant' = o.val
     /\ ret' = [op |-> "delete", key |-> id, ok |-> o.ok]
     /\ UNCHANGED <<redis, faults, lastSet, gone, seen, chainLog, tasks>>

\* the tool call rag_search of the service whose INSTANCE_ID is prefix
RagSearch(prefix, params, pages, f, env) ==
  \E o \in {rag_search(redis, qdrant, prefix, params, pages, f, env)} :
     /\ Fault(f)
     /\ Bounded(o.db)
     /\ redis' = o.db
     /\ ret' = [op |-> "rag_search", request |-> request_of(params), env |-> env,
                status |-> o.status, body |-> o.body, trace |-> o.trace]
     /\ UNCHANGED <<qdrant, lastSet, gone, seen, chainLog, tasks>>

\* the tool call rag_store
RagStore(params) ==
  /\ ret' = [op |-> "rag_store", content |-> params.content,
             status |-> rag_store(params).status, body |-> rag_store(params).body]
  /\ UNCHANGED <<redis, qdrant, faults, lastSet, gone, seen, chainLog, tasks>>

RagSearchParams(query, limit, category_filter, tags_filter, instance_filter, hybrid_mode) ==
  [query |-> query, limit |-> limit, threshold |-> 7, category_filter |-> category_filter,
   tags_filter |-> tags_filter, instance_filter |-> instance_filter, hybrid_mode |-> hybrid_mode]

RagStoreParams(content, category, tags) ==
  [content |-> content, category |-> category, tags |-> tags, importance |-> None,
   chain_id |-> None, parent_id |-> None, framework |-> None]

pHybrid == RagSearchParams("outage", 2, None, Some(<<"b">>), None, TRUE)
pDirect == RagSearchParams("outage", 2, None, Some(<<"b">>), None, FALSE)
\* the scenario request of the spec: category "ops", cache first
pOps == RagSearchParams("outage", 2, Some("ops"), None, None, TRUE)
\* a direct request whose tags filter names one tag of mA and one tag of no memory
pAnyTag == RagSearchParams("outage", 2, None, Some(<<"a", "z">>), None, FALSE)
SearchParams == {pHybrid, pDirect}
\* a direct request with an instance allow-list
pInst == RagSearchParams("outage", 2, None, None, Some(<<"CC">>), FALSE)
StoreParams == {pOps, pAnyTag, pInst}

\* which remote call of a Search Layer call fails
Failures == {"none", "embedding", "qdrant"}

\* what the outside world may do during one Search Layer call
Envs(points) == [failure : Failures, order : Perms(DOMAIN points), search_id : {"s1", "s2"}]
WriteEnvs == [failure : Failures, order : {<<>>}, search_id : {"s1"}]

\* what the SCAN calls of a request may return, and which of its store calls
\* can fail; a direct request makes none
SearchPages(params) == IF params.hybrid_mode THEN ScanPages(redis, "CC") ELSE {<<<<>>>>}
SearchFaults(params, pages) ==
  IF params.hybrid_mode THEN Faults(search_cached(redis, "CC", request_of(params), pages, 0).n) ELSE {0}

Next ==
  \/ Set("CC", mA, None, 0)
  \/ \E m \in {mA, mB}, env \in WriteEnvs : Index(m, env)
  \/ \E m \in {mA, mB}, env \in WriteEnvs : Delete(m.id, env)
  \/ \E params \in SearchParams, env \in Envs(qdrant) :
       \E pages \in SearchPages(params) :
         \E f \in SearchFaults(params, pages) : RagSearch("CC", params, pages, f, env)
  \/ RagStore(RagStoreParams("outage postmortem", Some("ops"), <<"incident">>))
  \/ \E k \in DOMAIN redis : Expire(k)

Spec == Init /\ [][Next]_vars

(***************************************************************************)
(* SpecStore: the service storing through rag_store and through its layers, *)
(* then searching by category or by several tags.                           *)
(***************************************************************************)
NextStore ==
  \/ Set("CC", mA, None, 0)
  \/ \E m \in {mA, mB}, env \in WriteEnvs : Index(m, env)
  \/ \E m \in {mA, mB}, env \in WriteEnvs : Delete(m.id, env)
  \/ \E params \in StoreParams, env \in Envs(qdrant) :
       \E pages \in SearchPages(params) :
         \E f \in SearchFaults(params, pages) : RagSearch("CC", params, pages, f, env)
  \/ RagStore(RagStoreParams("outage postmortem", Some("ops"), <<"incident">>))
  \/ \E k \in DOMAIN redis : Expire(k)

SpecStore == Init /\ [][NextStore]_vars

(***************************************************************************)
(* SpecChain: one writer storing the memories of one chain.                 *)
(***************************************************************************)
n1 == Memory("u1", "CC", "step one", None, <<>>, Some("c1"))
n2 == Memory("u2", "CC", "step two", None, <<"a">>, Some("c1"))
n3 == Memory("u3", "CC", "step three", None, <<>>, Some("c1"))
ChainMemories == {n1, n2, n3}

NextChain ==
  \/ \E m \in ChainMemories :
       \E f \in Faults(set(redis, "CC", m.id, m, None, 0).n) : Set("CC", m, None, f)
  \/ \E m \in ChainMemories :
       \E f \in Faults(get(redis, "CC", m.id, 0, 0).n) : Get("CC", m.id, f)

SpecChain == Init /\ [][NextChain]_vars

(***************************************************************************)
(* SpecScan: one instance storing, invalidating and scanning with requests  *)
(* that carry every filter and the limits 0 and 1.                          *)
(***************************************************************************)
ScanRequests == {rOps, rZero, rOne}

NextScan ==
  \/ \E m \in {mA, mB} : Set("CC", m, None, 0)
  \/ \E r \in ScanRequests, pages \in ScanPages(redis, "CC") :
       SearchCached("CC", r, pages, 0)
  \/ \E m \in {mA, mB} : Invalidate("CC", m.id, 0)
  \/ \E k \in DOMAIN redis : Expire(k)

SpecScan == Init /\ [][NextScan]_vars

(***************************************************************************)
(* SpecRace: one set and one invalidate of the same id, each issuing its    *)
(* store commands one at a time, so that the commands of the two calls      *)
(* interleave in every order.  A call in flight is [status, i, cmds]: the   *)
(* commands it has left to issue (cmds[i] is the next) and whether it is    *)
(* running or has returned Ok or Err.  pool.get() changes nothing in the    *)
(* store and is not a step.                                                 *)
(***************************************************************************)
Cmd(c, k, arg, must) == [c |-> c, k |-> k, arg |-> arg, must |-> must]

\* one store command, executed atomically by Redis
Exec(db, cmd) ==
  CASE cmd.c = "SET" -> SET(db, cmd.k, cmd.arg)
    [] cmd.c = "SETEX" -> SETEX(db, cmd.k, cmd.arg.v, cmd.arg.seconds)
    [] cmd.c = "HINCRBY" -> HINCRBY(db, cmd.k, cmd.arg, 1)
    [] cmd.c = "HSET" -> HSET(db, cmd.k, cmd.arg, Now)
    [] cmd.c = "SADD" -> SADD(db, cmd.k, cmd.arg)
    [] cmd.c = "SREM" -> SREM(db, cmd.k, cmd.arg)
    [] cmd.c = "RPUSH" -> RPUSH(db, cmd.k, cmd.arg)
    [] cmd.c = "LREM" -> LREM(db, cmd.k, cmd.arg)
    [] cmd.c = "DEL" -> DEL(db, cmd.k)

\* RedisCache::set: the commands it issues, in order; each ends in `?`
set_commands(prefix, key, memory, ttl_seconds) ==
  <<IF ttl_seconds /= None
    THEN Cmd("SETEX", make_thought_key(prefix, key),
             [v |-> MemoryToJson(memory), seconds |-> ttl_seconds[1]], TRUE)
    ELSE Cmd("SET", make_thought_key(prefix, key), MemoryToJson(memory), TRUE),
    Cmd("SET", make_metadata_key(prefix, key), MetaJson(prefix, key, memory), TRUE)>>
  \o [i \in DOMAIN memory.metadata.tags |->
        Cmd("SADD", make_tag_key(prefix, memory.metadata.tags[i]), key, TRUE)]
  \o (IF memory.metadata.chain_id = None THEN <<>>
      ELSE <<Cmd("RPUSH", make_chain_key(prefix, memory.metadata.chain_id[1]), key, TRUE)>>)

\* RedisCache::invalidate: the commands that follow the GET of its self.get(key),
\* which returned found; the two updates of get are not `?`, the others are
invalidate_commands(prefix, key, found) ==
  (IF found = None THEN <<>>
   ELSE <<Cmd("HINCRBY", make_metadata_key(prefix, key), "access_count", FALSE),
          Cmd("HSET", make_metadata_key(prefix, key), "last_accessed", FALSE)>>
        \o [i \in DOMAIN found[1].metadata.tags |->
              Cmd("SREM", make_tag_key(prefix, found[1].metadata.tags[i]), key, TRUE)]
        \o (IF found[1].metadata.chain_id = None THEN <<>>
            ELSE <<Cmd("LREM", make_chain_key(prefix, found[1].metadata.chain_id[1]), key, TRUE)>>))
  \o <<Cmd("DEL", make_thought_key(prefix, key), None, TRUE),
       Cmd("DEL", make_metadata_key(prefix, key), None, TRUE)>>

Running(cmds) == [status |-> "running", i |-> 1, cmds |-> cmds]

\* the call `name` issues its next command
Step(name) ==
  /\ name \in DOMAIN tasks /\ tasks[name].status = "running" /\ tasks[name].i >= 1
  /\ \E t \in {tasks[name]} : \E r \in {Exec(redis, t.cmds[t.i])} :
       /\ Bounded(r.db)
       /\ redis' = r.db
       /\ tasks' = Put(tasks, name,
                       IF ~r.ok /\ t.cmds[t.i].must THEN [t EXCEPT !.status = "err"]
                       ELSE IF t.i = Len(t.cmds) THEN [t EXCEPT !.status = "ok"]
                       ELSE [t EXCEPT !.i = t.i + 1])
  /\ ret' = [op |-> "step", of |-> name]
  /\ UNCHANGED <<qdrant, faults, lastSet, gone, seen, chainLog>>

\* set(memory.id, memory, None) is called
StartSet(prefix, memory) ==
  /\ "set" \notin DOMAIN tasks
  /\ tasks' = Put(tasks, "set", Running(set_commands(prefix, memory.id, memory, None)))
  /\ ret' = [op |-> "call", of |-> "set"]
  /\ UNCHANGED <<redis, qdrant, faults, lastSet, gone, seen, chainLog>>

\* invalidate(key) is called: no command yet (i = 0)
StartInvalidate(key) ==
  /\ "invalidate" \notin DOMAIN tasks
  /\ tasks' = Put(tasks, "invalidate", [status |-> "running", i |-> 0, cmds |-> <<>>])
  /\ ret' = [op |-> "call", of |-> "invalidate"]
  /\ UNCHANGED <<redis, qdrant, faults, lastSet, gone, seen, chainLog>>

\* invalidate, the GET of self.get(key): what it decodes fixes the commands to come
InvalidateGet(prefix, key) ==
  /\ "invalidate" \in DOMAIN tasks /\ tasks["invalidate"].i = 0
  /\ tasks["invalidate"].status = "running"
  /\ \E data \in {GET(redis, make_thought_key(prefix, key))} :
       tasks' = Put(tasks, "invalidate",
                    IF ~data.ok \/ (data.val /= None /\ MemoryFromJson(data.val[1]) = None)
                    THEN [status |-> "err", i |-> 0, cmds |-> <<>>]
                    ELSE Running(invalidate_commands(prefix, key,
                                   IF data.val = None THEN None ELSE MemoryFromJson(data.val[1]))))
  /\ ret' = [op |-> "step", of |-> "invalidate"]
  /\ UNCHANGED <<redis, qdrant, faults, lastSet, gone, seen, chainLog>>

NextRace ==
  \/ tasks = EmptyDb /\ Set("CC", mA, None, 0)
  \/ StartSet("CC", mA)
  \/ StartInvalidate(mA.id)
  \/ InvalidateGet("CC", mA.id)
  \/ \E name \in {"set", "invalidate"} : Step(name)

SpecRace == Init /\ [][NextRace]_vars

(***************************************************************************)
(* SpecIndex: the Search Layer's writers.  index and delete are one remote  *)
(* call each; update_embedding is two, and other calls run between them.    *)
(***************************************************************************)
\* update_embedding up to the reply of get_points; a point that was found leaves
\* the call in flight, holding the payload
UpdateFetch(id, embedding, env) ==
  \E got \in {get_points(qdrant, id, env)} :
     /\ "update" \notin DOMAIN tasks
     /\ tasks' = IF got.ok /\ got.val /= None
                 THEN Put(tasks, "update", [id |-> id, embedding |-> embedding, payload |-> got.val[1]])
                 ELSE tasks
     /\ ret' = IF got.ok /\ got.val /= None THEN [op |-> "get_points", key |-> id]
               ELSE [op |-> "update_embedding", key |-> id, ok |-> got.ok, upsert |-> FALSE]
     /\ UNCHANGED <<redis, qdrant, faults, lastSet, gone, seen, chainLog>>

\* update_embedding from the upsert to its return
UpdateUpsert(env) ==
  /\ "update" \in DOMAIN tasks
  /\ \E o \in {upsert_points(qdrant, tasks["update"].id, tasks["update"].embedding,
                              tasks["update"].payload, env)} :
       /\ qdrant' = o.val
       /\ ret' = [op |-> "update_embedding", key |-> tasks["update"].id, ok |-> o.ok, upsert |-> TRUE]
  /\ tasks' = Remove(tasks, "update")
  /\ UNCHANGED <<redis, faults, lastSet, gone, seen, chainLog>>

\* mA carrying an embedding of its own
mE == [mA EXCEPT !.embedding = Some(<<0, 1>>)]
IndexMemories == {mA, mB, mE}
NewEmbeddings == {<<1, 1>>}
FetchEnvs == [failure : {"none", "qdrant"}, with_payload : BOOLEAN]

NextIndex ==
  \/ \E m \in IndexMemories, env \in WriteEnvs : Index(m, env)
  \/ \E m \in IndexMemories, env \in WriteEnvs : Delete(m.id, env)
  \/ \E m \in IndexMemories, v \in NewEmbeddings, env \in FetchEnvs : UpdateFetch(m.id, v, env)
  \/ \E env \in WriteEnvs : UpdateUpsert(env)

SpecIndex == Init /\ [][NextIndex]_vars

(***************************************************************************)
(* SpecShared: the instances CC and DT on one Redis store.  Each stores its *)
(* own memory under its own prefix and both search; primary records are     *)
(* neither removed nor changed.                                             *)
(***************************************************************************)
Instances == {"CC", "DT"}
SharedStores == {<<"CC", mA>>, <<"DT", mB>>}
SharedRequests == {rTagA, rOne}

NextShared ==
  \/ \E s \in SharedStores : Set(s[1], s[2], None, 0)
  \/ \E prefix \in Instances, r \in SharedRequests :
       \E pages \in ScanPages(redis, prefix) : SearchCached(prefix, r, pages, 0)
  \/ \E k \in DOMAIN redis : Expire(k)

SpecShared == Init /\ [][NextShared]_vars

(***************************************************************************)
(* SpecQuery: one instance whose searches meet store failures.              *)
(***************************************************************************)
QueryRequests == {rTagA}

NextQuery ==
  \/ \E m \in {mA, mB} : Set("CC", m, None, 0)
  \/ \E r \in QueryRequests, pages \in ScanPages(redis, "CC") :
       \E f \in Faults(search_cached(redis, "CC", r, pages, 0).n) : SearchCached("CC", r, pages, f)
  \/ \E m \in {mA, mB} : Invalidate("CC", m.id, 0)
  \/ \E k \in DOMAIN redis : Expire(k)

SpecQuery == Init /\ [][NextQuery]_vars

(***************************************************************************)
(* Claims about the Retrieval Coordinator.                                  *)
(***************************************************************************)
NoCacheHits(r) == ~r.trace[1].ok \/ r.trace[1].val = <<>>

\* C1: a rag_search with hybrid_mode = false leaves the Redis keyspace as it was
\* and makes one layer call, to the Search Layer; the response is that search's
\* result as JSON, or an error carrying that search's error.
C1_DirectSkipsCache ==
  [][(ret'.op = "rag_search" /\ ~ret'.request.hybrid_mode) =>
       /\ redis' = redis
       /\ Len(ret'.trace) = 1 /\ ret'.trace[1].layer = "search"
       /\ \A s \in {search(qdrant, ret'.request, ret'.env)} :
             IF s.ok THEN ret'.status = "ok" /\ ret'.body = SearchResultToJson(s.val)
             ELSE ret'.status = "error" /\ ret'.body = s.val]_vars

\* a direct search answered from the index while the cache holds a matching record
C1_Witness ==
  /\ ret.op = "rag_search" /\ ~ret.request.hybrid_mode /\ ret.status = "ok"
  /\ ret.body.o.total_results = JNum(2)
  /\ Exists(redis, make_thought_key("CC", "u1"))

\* C2: when search_cached returns a non-empty list to a hybrid rag_search, the
\* response holds exactly that list, is tagged source = "cache", and the Search
\* Layer is not called; and the memories of every response are those of one layer
\* call alone.
C2_CacheHitIsWholeAnswer ==
  /\ (ret.op = "rag_search" /\ ret.request.hybrid_mode /\ ~NoCacheHits(ret)) =>
       /\ ret.status = "ok"
       /\ ret.body = JObj([memories |-> MemoriesToJson(ret.trace[1].val),
                           source |-> JStr("cache"),
                           count |-> JNum(Len(ret.trace[1].val))])
       /\ Len(ret.trace) = 1 /\ ret.trace[1].layer = "cache"
  /\ (ret.op = "rag_search" /\ ret.status = "ok") =>
       LET last == ret.trace[Len(ret.trace)]
       IN ret.body.o.memories =
            MemoriesToJson(IF last.layer = "cache" THEN last.val ELSE last.val.memories)

\* a cache hit was returned while the index holds a point the cache list lacks
C2_Witness ==
  /\ ret.op = "rag_search" /\ ret.request.hybrid_mode /\ ret.status = "ok"
  /\ ret.body.o.memories = MemoriesToJson(<<mA>>)
  /\ "source" \in DOMAIN ret.body.o
  /\ "u2" \in DOMAIN qdrant

\* C3: when search_cached returns an empty list or an error to a hybrid rag_search,
\* the Search Layer is called once, after it, and the response is that search's
\* result, or an error carrying that search's error; the cache's error is not
\* reported.
C3_FallbackOnMissOrError ==
  (ret.op = "rag_search" /\ ret.request.hybrid_mode /\ NoCacheHits(ret)) =>
    /\ Len(ret.trace) = 2 /\ ret.trace[1].layer = "cache" /\ ret.trace[2].layer = "search"
    /\ \A s \in {search(qdrant, ret.request, ret.env)} :
          /\ ret.trace[2].ok = s.ok
          /\ IF s.ok THEN ret.status = "ok" /\ ret.body = SearchResultToJson(s.val)
             ELSE ret.status = "error" /\ ret.body = s.val

\* search_cached failed and the caller got the Search Layer's result
C3_Witness ==
  /\ ret.op = "rag_search" /\ ret.request.hybrid_mode
  /\ ~ret.trace[1].ok
  /\ ret.status = "ok" /\ ret.body.o.total_results = JNum(1)

\* C4: a hybrid rag_search that gets no cache hits answers as the direct rag_search
\* with the same query, limit, threshold and filters does on the same index: the
\* same memories in the same order, the same total_results and cache_hits, or the
\* same error.
C4_HybridMissEqualsDirect ==
  (ret.op = "rag_search" /\ ret.request.hybrid_mode /\ NoCacheHits(ret)) =>
    \A direct \in {search_branch(redis, qdrant, [ret.request EXCEPT !.hybrid_mode = FALSE],
                                   ret.env, <<>>)} :
       /\ ret.status = direct.status
       /\ IF direct.status = "ok"
          THEN /\ ret.body.o.memories = direct.body.o.memories
               /\ ret.body.o.total_results = direct.body.o.total_results
               /\ ret.body.o.cache_hits = direct.body.o.cache_hits
          ELSE ret.body = direct.body

\* a hybrid search with an empty cache returned the two indexed memories
C4_Witness ==
  /\ ret.op = "rag_search" /\ ret.request.hybrid_mode /\ ret.trace[1].ok
  /\ ret.trace[1].val = <<>>
  /\ ret.status = "ok" /\ ret.body.o.total_results = JNum(2)

(***************************************************************************)
(* Claims about the Cache Layer.                                            *)
(***************************************************************************)
TagMembers(db, prefix, tag) ==
  IF IsType(db, make_tag_key(prefix, tag), "set") THEN db[make_tag_key(prefix, tag)].members ELSE {}

ChainItems(db, ck) == IF IsType(db, ck, "list") THEN db[ck].items ELSE <<>>

SameStored(r, m) ==
  /\ r.id = m.id /\ r.instance_id = m.instance_id /\ r.content = m.content
  /\ r.metadata = m.metadata
  /\ r.created_at = m.created_at /\ r.updated_at = m.updated_at

\* C5: a get(k) that follows a successful set(k, m), with no expiry, invalidation or
\* later write of k's primary record in between, returns Some Memory whose id,
\* instance id, content, metadata block and timestamps are those of m (it returns
\* an error only when one of its own store calls fails), whatever gets and scans
\* ran in between.
C5_GetReturnsStored ==
  (ret.op = "get" /\ <<ret.prefix, ret.key>> \in DOMAIN lastSet) =>
    /\ ret.ok \/ ret.fault
    /\ ret.ok => /\ ret.val /= None
                 /\ SameStored(ret.val[1], lastSet[<<ret.prefix, ret.key>>])

\* a get returned the stored mA after a scan had run and cached its result
C5_Witness ==
  /\ ret.op = "get" /\ ret.ok /\ ret.val = Some(mA)
  /\ Lookup(lastSet, <<"CC", "u1">>) = Some(mA)
  /\ Exists(redis, make_cache_key(query_hash(rTagA)))

\* C6: after invalidate(k) returns success on the record that set(k, m) stored, k is
\* in the tag set of no tag of m (for m with tags {a, b}: neither in a's nor in b's).
C6_InvalidateClearsTagSets ==
  (ret.op = "invalidate" /\ ret.ok /\ ret.was /= None) =>
    \A i \in DOMAIN ret.was[1].metadata.tags :
      ret.key \notin TagMembers(redis, ret.prefix, ret.was[1].metadata.tags[i])

\* invalidate succeeded on the stored mA, which carries the tags a and b
C6_Witness ==
  /\ ret.op = "invalidate" /\ ret.ok /\ ret.was = Some(mA)
  /\ mA.metadata.tags = <<"a", "b">>

\* does the tags filter of the request name a tag of m
FilterNamesTagOf(request, m) ==
  /\ request.tags_filter /= None
  /\ \E i \in DOMAIN request.tags_filter[1] :
       \E t \in DOMAIN m.metadata.tags : m.metadata.tags[t] = request.tags_filter[1][i]

ReturnsNoneGone(restrictToScans) ==
  (/\ ret.op = "search_cached" /\ ret.ok
   /\ restrictToScans => ret.scanned) =>
    \A g \in gone :
      (g[1] = ret.prefix /\ FilterNamesTagOf(ret.request, g[2])) =>
        \A i \in DOMAIN ret.val : ret.val[i].id /= g[2].id

\* C7 (as claimed): after a memory was stored and invalidated, no later
\* search_cached whose tags filter names one of its tags returns it, also when the
\* request's result was cached before the invalidation.
C7_NeverReturnedAfterInvalidate == ReturnsNoneGone(FALSE)

\* C7 (amended): after a memory was stored and invalidated (and not stored again),
\* no later search_cached that misses the query cache and scans returns it.
C7_ScanExcludesInvalidated == ReturnsNoneGone(TRUE)

\* a scan for tag a ran after mA was invalidated, and returned nothing
C7_Witness ==
  /\ ret.op = "search_cached" /\ ret.ok /\ ret.scanned /\ ret.request = rTagA
  /\ <<"CC", mA>> \in gone
  /\ ret.val = <<>>

C9_ChainOrder ==
  chainLog.clean =>
    \A ck \in DOMAIN chainLog.log \cup {k \in DOMAIN redis : k[2] = "chains"} :
      ChainItems(redis, ck) = (IF ck \in DOMAIN chainLog.log THEN chainLog.log[ck] ELSE <<>>)

\* three memories of chain c1 were stored in the order u1, u2, u3
C9_Witness ==
  /\ chainLog.clean
  /\ Lookup(chainLog.log, make_chain_key("CC", "c1")) = Some(<<"u1", "u2", "u3">>)
  /\ ChainItems(redis, make_chain_key("CC", "c1")) = <<"u1", "u2", "u3">>

\* C10: invalidate(k) for an id with no primary record returns success (it returns
\* an error only when one of its own store calls fails); it creates no primary
\* record and no metadata key of k, and leaves every tag set and chain list as it was.
C10_InvalidateMissing ==
  [][(ret'.op = "invalidate" /\ ~Exists(redis, make_thought_key(ret'.prefix, ret'.key))) =>
       /\ ret'.ok \/ ret'.fault
       /\ ~Exists(redis', make_thought_key(ret'.prefix, ret'.key))
       /\ Exists(redis', make_metadata_key(ret'.prefix, ret'.key)) =>
            Exists(redis, make_metadata_key(ret'.prefix, ret'.key))
       /\ \A k \in DOMAIN redis \cup DOMAIN redis' :
            k[2] \in {"tags", "chains"} =>
              Exists(redis, k) /\ Exists(redis', k) /\ redis'[k] = redis[k]]_vars

\* invalidate returned success for an id whose primary record had expired, and the
\* id is still in the tag set of a
C10_Witness ==
  /\ ret.op = "invalidate" /\ ret.key = "u1" /\ ret.ok /\ ~ret.found
  /\ "u1" \in TagMembers(redis, "CC", "a")

\* the access_count stored under a metadata key: a field of the JSON text that set
\* writes, or of the hash that HINCRBY makes
StoredAccessCount(db, mk) ==
  IF IsType(db, mk, "string") THEN db[mk].str.o.access_count.n
  ELSE IF IsType(db, mk, "hash") /\ "access_count" \in DOMAIN db[mk].hash
       THEN db[mk].hash["access_count"]
  ELSE 0

\* the primary record under tk exists and decodes
Readable(db, tk) == IsType(db, tk, "string") /\ MemoryFromJson(db[tk].str) /= None

\* C11 (as claimed): after a get(k) has hit the record that a successful set(k, m)
\* wrote, the access_count stored under the metadata key of k is at least 1 (it is n
\* after n successful gets).
C11_AccessCounted ==
  (/\ ret.op = "get" /\ ret.ok /\ ret.val /= None
   /\ <<ret.prefix, ret.key>> \in DOMAIN lastSet) =>
    StoredAccessCount(redis, make_metadata_key(ret.prefix, ret.key)) >= 1

\* C12: get(k) on a primary record that exists and decodes returns that record, with
\* the access-count or last-accessed call failing or not, and returns an error only
\* when the pool or the GET fails; on an absent primary record it returns not-found
\* and leaves every key as it was.
C12_GetIsBestEffort ==
  [][ret'.op = "get" =>
       \A tk \in {make_thought_key(ret'.prefix, ret'.key)} :
         /\ Readable(redis, tk) =>
              /\ \A f \in {0, 3, 4} :
                   \A o \in {get(redis, ret'.prefix, ret'.key, 0, f)} :
                     o.ok /\ o.val = MemoryFromJson(redis[tk].str)
              /\ ret'.ok \/ ret'.fault
              /\ ret'.ok => ret'.val = MemoryFromJson(redis[tk].str)
         /\ ~Exists(redis, tk) =>
              /\ ret'.ok \/ ret'.fault
              /\ ret'.ok => ret'.val = None
              /\ redis' = redis]_vars

\* a get returned the record although one of its two metadata calls failed
C12_Witness ==
  /\ ret.op = "get" /\ ret.ok /\ ret.fault
  /\ ret.val = Some(mA)

\* C13: after set(k, m, ttl) returns success the primary record of k decodes to m,
\* the metadata of k has access_count 0, k is in the tag set of every tag of m, and
\* k is the last element of the chain list of m's chain id if m has one.
C13_SetWritesAll ==
  (ret.op = "set" /\ ret.ok) =>
    \A m \in {lastSet[<<ret.prefix, ret.key>>]} :
      /\ Readable(redis, make_thought_key(ret.prefix, ret.key))
      /\ MemoryFromJson(redis[make_thought_key(ret.prefix, ret.key)].str) = Some(m)
      /\ Exists(redis, make_metadata_key(ret.prefix, ret.key))
      /\ StoredAccessCount(redis, make_metadata_key(ret.prefix, ret.key)) = 0
      /\ \A i \in DOMAIN m.metadata.tags :
           ret.key \in TagMembers(redis, ret.prefix, m.metadata.tags[i])
      /\ m.metadata.chain_id /= None =>
           \A items \in {ChainItems(redis, make_chain_key(ret.prefix, m.metadata.chain_id[1]))} :
             items /= <<>> /\ items[Len(items)] = ret.key

\* mA, with two tags and a chain id, was stored a second time
C13_Witness ==
  /\ ret.op = "set" /\ ret.ok /\ ret.key = "u1"
  /\ Lookup(lastSet, <<"CC", "u1">>) = Some(mA)
  /\ ChainItems(redis, make_chain_key("CC", "c1")) = <<"u1", "u1">>

\* C14 (as claimed): set returns success whenever its write of the primary record
\* succeeded, and invalidate whenever the primary record it found is deleted.
C14_IndexFailuresSwallowed ==
  /\ (ret.op = "set" /\ ret.wrote) => ret.ok
  /\ (/\ ret.op = "invalidate" /\ ret.found
      /\ ~Exists(redis, make_thought_key(ret.prefix, ret.key))) => ret.ok

\* C20 (as claimed): when no store call has failed, an id is in the chain list of
\* chain c exactly when its primary record exists and names chain c.
C20_ChainMatchesRecords ==
  faults = 0 =>
    /\ \A tk \in {k \in DOMAIN redis : k[2] = "Thoughts"} :
         (Readable(redis, tk) /\ MemoryFromJson(redis[tk].str)[1].metadata.chain_id /= None) =>
           \A ck \in {make_chain_key(tk[1], MemoryFromJson(redis[tk].str)[1].metadata.chain_id[1])} :
             \E i \in DOMAIN ChainItems(redis, ck) : ChainItems(redis, ck)[i] = tk[3]
    /\ \A ck \in {k \in DOMAIN redis : k[2] = "chains"} :
         \A i \in DOMAIN ChainItems(redis, ck) :
           \A tk \in {make_thought_key(ck[1], ChainItems(redis, ck)[i])} :
             /\ Readable(redis, tk)
             /\ MemoryFromJson(redis[tk].str)[1].metadata.chain_id = Some(ck[3])

Range(seq) == {seq[i] : i \in DOMAIN seq}

\* what the spec asks of the filters: exact category, any tag, instance allow-list
MatchesCategory(request, m) ==
  request.category_filter /= None => m.metadata.category = request.category_filter
MatchesAnyTag(request, m) ==
  request.tags_filter /= None => Range(request.tags_filter[1]) \cap Range(m.metadata.tags) /= {}
MatchesInstance(request, m) ==
  request.instance_filter /= None => m.instance_id \in Range(request.instance_filter[1])
Matches(request, m) ==
  MatchesCategory(request, m) /\ MatchesAnyTag(request, m) /\ MatchesInstance(request, m)

\* C15: every memory that a search_cached returns after a query-cache miss is a
\* primary record of the calling instance and satisfies the category, tags (any)
\* and instance filters of the request; when fewer than limit are returned, every
\* primary record of the instance that satisfies them is returned.
C15_ScanAppliesFilters ==
  (ret.op = "search_cached" /\ ret.ok /\ ret.scanned) =>
    /\ \A i \in DOMAIN ret.val :
         /\ Readable(redis, make_thought_key(ret.prefix, ret.val[i].id))
         /\ MemoryFromJson(redis[make_thought_key(ret.prefix, ret.val[i].id)].str) = Some(ret.val[i])
         /\ Matches(ret.request, ret.val[i])
    /\ Len(ret.val) < limit_of(ret.request) =>
         \A id \in ScanIds(redis, ret.prefix) :
           \A m \in {MemoryFromJson(redis[make_thought_key(ret.prefix, id)].str)[1]} :
             Matches(ret.request, m) => m \in Range(ret.val)

\* the scan with all three filters returned mA, which carries one of the two tags
\* asked for, and left out mB, which is stored too
C15_Witness ==
  /\ ret.op = "search_cached" /\ ret.ok /\ ret.scanned /\ ret.request = rOps
  /\ ret.val = <<mA>>
  /\ Readable(redis, make_thought_key("CC", "u2"))

\* C16 (as claimed): the list that search_cached returns has at most limit elements
\* (at most 20 without a limit), the limits 0 and 1 included.
C16_AtMostLimit ==
  (ret.op = "search_cached" /\ ret.ok) => Len(ret.val) <= limit_of(ret.request)

\* C17 (as claimed): when the Search Layer returns fewer memories than the limit,
\* every indexed memory that matches the category filter and carries at least one
\* tag of the tags filter is among them.
C17_SearchTagsMatchAny ==
  (/\ ret.op = "rag_search" /\ ret.status = "ok"
   /\ ret.trace[Len(ret.trace)].layer = "search") =>
    \A found \in {ret.trace[Len(ret.trace)].val.memories} :
      Len(found) < limit_of(ret.request) =>
        \A id \in DOMAIN qdrant :
          \A m \in {MemoryFromJson(JObj(qdrant[id].payload))[1]} :
            (MatchesCategory(ret.request, m) /\ MatchesAnyTag(ret.request, m)) =>
              m \in Range(found)

\* C18 (as claimed): after rag_store returned success for a content, a Memory with
\* that content is readable from the Cache Layer and its id is a point of the index.
C18_StoreWritesBoth ==
  (ret.op = "rag_store" /\ ret.status = "ok") =>
    \E tk \in {k \in DOMAIN redis : k[2] = "Thoughts"} :
      /\ Readable(redis, tk)
      /\ MemoryFromJson(redis[tk].str)[1].content = ret.content
      /\ tk[3] \in DOMAIN qdrant

\* C19 (as claimed): a rag_search with category_filter "ops" and hybrid_mode = true
\* that follows a successful rag_store, finds no query-cache entry for its request
\* and meets no Search Layer failure is answered by the Search Layer with
\* total_results >= 1 and a memory of the stored content.
C19_StoredMemoryIsFound ==
  [][(/\ ret.op = "rag_store" /\ ret.status = "ok"
      /\ ret'.op = "rag_search" /\ ret'.request.hybrid_mode
      /\ ret'.request.category_filter = Some("ops")
      /\ ret'.env.failure = "none"
      /\ ~Exists(redis, make_cache_key(query_hash(ret'.request)))) =>
       /\ ret'.status = "ok"
       /\ ret'.trace[Len(ret'.trace)].layer = "search"
       /\ \A found \in {ret'.trace[Len(ret'.trace)].val} :
            /\ found.total_results >= 1
            /\ \E i \in DOMAIN found.memories : found.memories[i].content = ret.content]_vars

CacheKeysOf(db) == {k \in DOMAIN db : k[2] = "cache"}

RECURSIVE CallsOfPages(_)
CallsOfPages(pages) ==
  IF pages = <<>> THEN <<>>
  ELSE <<"scan">>
       \o [i \in 1..(4 * Len(Head(pages))) |-> <<"conn", "get", "hincrby", "hset">>[((i - 1) % 4) + 1]]
       \o CallsOfPages(Tail(pages))

\* C22: in search_cached, a failed read of the query-cache entry and an entry
\* that does not decode are misses, after which the scan runs; a failed SCAN or
\* a failed read of a candidate record gives an error and writes no query-cache
\* entry; a failed write of the query-cache entry leaves the result as it is.
C22_SearchCachedFailures ==
  \A r \in QueryRequests : \A pages \in ScanPages(redis, "CC") :
    \A ck \in {make_cache_key(query_hash(r))} :
      \A miss \in {search_cached(Remove(redis, ck), "CC", r, pages, 0)} :
        /\ \A o \in {search_cached(redis, "CC", r, pages, 2)} :
             o.n > 2 /\ o.ok /\ o.val = miss.val
        /\ \A o \in {search_cached(Put(redis, ck, Str(JStr("not a list"), TRUE)), "CC", r, pages, 0)} :
             o.n > 2 /\ o.ok /\ o.val = miss.val
        /\ \A kinds \in {<<"conn", "cache_get">> \o CallsOfPages(pages)} :
             /\ \A f \in 3..Len(kinds) :
                  kinds[f] \in {"scan", "conn", "get"} =>
                    \A o \in {search_cached(Remove(redis, ck), "CC", r, pages, f)} :
                      ~o.ok /\ ~Exists(o.db, ck)
             /\ miss.val /= <<>> =>
                  \A o \in {search_cached(Remove(redis, ck), "CC", r, pages, Len(kinds) + 1)} :
                    o.ok /\ o.val = miss.val /\ ~Exists(o.db, ck)

\* a search whose write of the query-cache entry failed returned what it found
C22_Witness ==
  /\ ret.op = "search_cached" /\ ret.fault /\ ret.ok /\ ret.scanned /\ ret.val = <<mA>>
  /\ ~Exists(redis, make_cache_key(query_hash(ret.request)))

\* C23: a set whose primary write succeeded and one of whose later writes failed
\* returns an error, leaves the primary record written and readable by get, leaves
\* the metadata and tag-set writes that preceded the failure in place, and changes
\* nothing else.
C23_SetDoesNotRollBack ==
  [][(ret'.op = "set" /\ ret'.wrote /\ ~ret'.ok) =>
       \E m \in ChainMemories :
         /\ m.id = ret'.key
         /\ Readable(redis', make_thought_key("CC", m.id))
         /\ get(redis', "CC", m.id, 0, 0).val = Some(m)
         /\ \E done \in 0..(Len(m.metadata.tags) + 1) :
              /\ done < 1 + Len(m.metadata.tags) + (IF m.metadata.chain_id = None THEN 0 ELSE 1)
              /\ done >= 1 =>
                   redis'[make_metadata_key("CC", m.id)] = Str(MetaJson("CC", m.id, m), FALSE)
              /\ \A i \in 1..(done - 1) :
                   m.id \in TagMembers(redis', "CC", m.metadata.tags[i])
              /\ \A k \in (DOMAIN redis \cup DOMAIN redis') \
                          ({make_thought_key("CC", m.id)}
                           \cup (IF done >= 1 THEN {make_metadata_key("CC", m.id)} ELSE {})
                           \cup {make_tag_key("CC", m.metadata.tags[i]) : i \in 1..(done - 1)}) :
                   Lookup(redis', k) = Lookup(redis, k)]_vars

\* the set of n2 failed at its chain-list write: the record and its tag index are
\* there, the chain entry is not
C23_Witness ==
  /\ ret.op = "set" /\ ret.wrote /\ ~ret.ok /\ ret.key = "u2"
  /\ Readable(redis, make_thought_key("CC", "u2"))
  /\ "u2" \in TagMembers(redis, "CC", "a")
  /\ "u2" \notin Range(ChainItems(redis, make_chain_key("CC", "c1")))

\* C26 (as claimed): after an invalidate of k returned success, the key space of
\* the instance holds no primary record of k, no metadata key of k, no tag set
\* with k in it and no chain list with k in it.
C26_InvalidateLeavesNoTrace ==
  (ret.op = "invalidate" /\ ret.ok) =>
    /\ ~Exists(redis, make_thought_key(ret.prefix, ret.key))
    /\ ~Exists(redis, make_metadata_key(ret.prefix, ret.key))
    /\ \A k \in DOMAIN redis :
         k[1] = ret.prefix =>
           /\ redis[k].type = "set" => ret.key \notin redis[k].members
           /\ redis[k].type = "list" => ret.key \notin Range(redis[k].items)

\* C30 (as claimed): no id occurs twice in a chain list.
C30_ChainIdsOnce ==
  \A k \in DOMAIN redis :
    redis[k].type = "list" =>
      \A i, j \in DOMAIN redis[k].items : redis[k].items[i] = redis[k].items[j] => i = j

\* C27 (as claimed): every memory that search_cached returns to an instance has
\* its primary record under the key prefix of that instance.
C27_ResultsAreOwn ==
  (ret.op = "search_cached" /\ ret.ok) =>
    \A i \in DOMAIN ret.val : Readable(redis, make_thought_key(ret.prefix, ret.val[i].id))

\* C28 (as claimed): every memory in the response to a rag_search with an
\* instance filter has an instance id of the allow-list.
C28_InstanceFilterHolds ==
  (ret.op = "rag_search" /\ ret.status = "ok" /\ ret.request.instance_filter /= None) =>
    \A i \in DOMAIN ret.body.o.memories.a :
      ret.body.o.memories.a[i].o.instance_id.s \in Range(ret.request.instance_filter[1])

\* C24: a successful index(m) leaves the other points as they are and one point
\* under m.id, whose payload decodes to m and whose vector is m's own embedding
\* when it has one, else the embedding of its content; a memory with an embedding
\* is indexed also when the Embedding Provider fails; indexing m again changes
\* nothing.
C24_IndexWritesOnePoint ==
  [][ret'.op = "index" =>
       \A m \in {ret'.memory} :
         /\ ret'.ok =>
              /\ DOMAIN qdrant' = DOMAIN qdrant \cup {m.id}
              /\ \A id \in DOMAIN qdrant \ {m.id} : qdrant'[id] = qdrant[id]
              /\ MemoryFromJson(JObj(qdrant'[m.id].payload)) = Some(m)
              /\ qdrant'[m.id].vector =
                   (IF m.embedding /= None THEN m.embedding[1] ELSE Embed(m.content))
              /\ \A again \in {index(qdrant', m, [failure |-> "none", order |-> <<>>, search_id |-> "s1"])} :
                   again.ok /\ again.val = qdrant'
         /\ m.embedding /= None =>
              index(qdrant, m, [failure |-> "embedding", order |-> <<>>, search_id |-> "s1"]).ok]_vars

\* mE was indexed over the point of mA, which has the same id
C24_Witness ==
  /\ ret.op = "index" /\ ret.ok /\ ret.memory = mE
  /\ qdrant["u1"].vector = <<0, 1>>
  /\ DOMAIN qdrant = {"u1", "u2"}

\* C25 (as claimed, its first part): no step of update_embedding adds a point to
\* the index.
C25_UpdateNeverCreates ==
  [][ret'.op = "update_embedding" => DOMAIN qdrant' \subseteq DOMAIN qdrant]_vars

\* C29 (as claimed): when a set of mA and an invalidate of its id have both
\* returned Ok, either the primary record exists and the id is in every tag set
\* and in the chain list of mA, or the primary record is absent and the id is in
\* no tag set and in no chain list.
C29_RaceEndsConsistent ==
  (/\ DOMAIN tasks = {"set", "invalidate"}
   /\ tasks["set"].status = "ok" /\ tasks["invalidate"].status = "ok") =>
    \/ /\ Readable(redis, make_thought_key("CC", mA.id))
       /\ \A i \in DOMAIN mA.metadata.tags : mA.id \in TagMembers(redis, "CC", mA.metadata.tags[i])
       /\ mA.id \in Range(ChainItems(redis, make_chain_key("CC", mA.metadata.chain_id[1])))
    \/ /\ ~Exists(redis, make_thought_key("CC", mA.id))
       /\ \A k \in DOMAIN redis :
            /\ redis[k].type = "set" => mA.id \notin redis[k].members
            /\ redis[k].type = "list" => mA.id \notin Range(redis[k].items)

====
